---- MODULE Spec2Model ----
(***************************************************************************)
(* Multi-provider content generation: the configuration resolver           *)
(* (createContentGeneratorConfig), the generator factory                    *)
(* (createContentGenerator) and the three provider adapters (OpenAIAdapter, *)
(* AnthropicAdapter, MetaLlamaAdapter): generateContent,                    *)
(* generateContentStream, countTokens and embedContent.                     *)
(*                                                                         *)
(* JavaScript strings that the code inspects character by character (the    *)
(* model name, searched with String.includes; the text of a request, which  *)
(* is joined and measured) are sequences of one character strings; every    *)
(* other string is an atom.                                                 *)
(***************************************************************************)
EXTENDS Integers, Sequences, FiniteSets, TLC

VARIABLES
    env,             \* process.env, the credential variables only
    getModel,        \* what config.getModel() returns
    getProxy,        \* what config.getProxy() returns
    authType,        \* the auth mode requested from the resolver
    pc,              \* "start" | "resolved" | "created" | "failed"
    cgConfig,        \* the ContentGeneratorConfig the resolver returned
    modelChecks,     \* the calls of getEffectiveModel issued so far
    generator,       \* the generator the factory returned
    factoryError,    \* the Error the factory threw, as its message parts
    stream,          \* the events the provider's stream will emit, in order
    faultAt,         \* number of events the stream delivers before it throws,
                     \* or NoFault
    faultMessage,    \* message of the Error the provider stream throws
    genState,        \* "idle" (no call yet) or the async generator's state:
                     \* "suspendedStart" | "suspendedYield" | "closed"
    pos,             \* number of provider events consumed so far
    received,        \* the partial responses the consumer received, in order
    streamError,     \* the Error the generator threw, as its message parts
    clientCalls,     \* calls issued on the adapter's transport client
    pulls,           \* number of next() calls the consumer made
    request,         \* the request the caller passes to the adapter
    lastCall,        \* arguments of the last call on the transport client
    reply,           \* the provider's response to generateContent's call
    opResult,        \* outcome of generateContent or countTokens
    embedResult,     \* outcome of the embedContent calls
    streamOpen,      \* whether the provider's transport stream is open
    consumer,        \* "pulling" | "finished": the consumer of the generator
    calls            \* the two calls made concurrently on one adapter: for
                     \* each, what its own closure and its provider hold

configVars == <<env, getModel, getProxy, authType, pc, cgConfig, modelChecks,
                generator, factoryError>>
streamVars == <<stream, faultAt, faultMessage, genState, pos, received,
                streamError, pulls>>
callVars == <<request, lastCall, reply, opResult, embedResult>>
consumerVars == <<streamOpen, consumer>>
vars == <<env, getModel, getProxy, authType, pc, cgConfig, modelChecks,
          generator, factoryError, stream, faultAt, faultMessage,
          genState, pos, received, streamError, clientCalls, pulls,
          request, lastCall, reply, opResult, embedResult, streamOpen,
          consumer, calls>>

-----------------------------------------------------------------------------
(* JavaScript values *)

\* the value undefined (an unset variable, an absent field)
Undefined == "<undefined>"

\* JavaScript null (finish_reason, stop_reason)
Null == "<null>"

\* JavaScript truthiness of a string-or-undefined value
Truthy(v) == v # Undefined /\ v # ""

\* `v || undefined`
OrUndefined(v) == IF Truthy(v) THEN v ELSE Undefined

\* `${v}` in a template literal
TemplateString(v) == IF v = Undefined THEN "undefined" ELSE v

\* String.prototype.includes on character sequences
Includes(s, sub) ==
    \E i \in 1..(Len(s) - Len(sub) + 1) : SubSeq(s, i, i + Len(sub) - 1) = sub

-----------------------------------------------------------------------------
(* contentGenerator.ts: AuthType, model names *)

LOGIN_WITH_GOOGLE == "oauth-personal"
USE_GEMINI == "gemini-api-key"
USE_VERTEX_AI == "vertex-ai"
CLOUD_SHELL == "cloud-shell"
USE_OPENAI == "openai-api-key"
USE_ANTHROPIC == "anthropic-api-key"
USE_META_LLAMA == "meta-llama-api-key"

AuthType == {LOGIN_WITH_GOOGLE, USE_GEMINI, USE_VERTEX_AI, CLOUD_SHELL,
             USE_OPENAI, USE_ANTHROPIC, USE_META_LLAMA}

SecondaryAuthTypes == {USE_OPENAI, USE_ANTHROPIC, USE_META_LLAMA}

\* 'gemini', the token the resolver searches the model name for
GeminiToken == <<"g", "e", "m", "i", "n", "i">>

\* DEFAULT_GEMINI_MODEL of config/models.ts
DEFAULT_GEMINI_MODEL ==
    <<"g", "e", "m", "i", "n", "i", "-", "2", ".", "5", "-", "p", "r", "o">>

Gpt4o == <<"g", "p", "t", "-", "4", "o">>

Claude35Sonnet ==
    <<"c", "l", "a", "u", "d", "e", "-", "3", "-", "5", "-", "s", "o", "n", "n",
      "e", "t", "-", "2", "0", "2", "4", "1", "0", "2", "2">>

Llama31 ==
    <<"l", "l", "a", "m", "a", "-", "3", ".", "1", "-", "7", "0", "b", "-", "i",
      "n", "s", "t", "r", "u", "c", "t">>

\* a secondary provider's model whose name contains the token
MyGeminiFt == <<"m", "y", "-", "g", "e", "m", "i", "n", "i", "-", "f", "t">>

\* the hardcoded default model of each secondary auth mode
DefaultModel(mode) ==
    CASE mode = USE_OPENAI -> Gpt4o
      [] mode = USE_ANTHROPIC -> Claude35Sonnet
      [] mode = USE_META_LLAMA -> Llama31

\* a resolver that tags the Meta branch with the auth mode's spelling
ProviderTag_metaLlama(mode) ==
    CASE mode = USE_OPENAI -> "openai"
      [] mode = USE_ANTHROPIC -> "anthropic"
      [] mode = USE_META_LLAMA -> "meta-llama"

\* the provider tag of each secondary auth mode
ProviderTag(mode) ==
    CASE mode = USE_OPENAI -> "openai"
      [] mode = USE_ANTHROPIC -> "anthropic"
      [] mode = USE_META_LLAMA -> "meta"

-----------------------------------------------------------------------------
(* The inputs of the resolver *)

\* the environments: every credential variable unset or set to a key;
\* OPENAI_API_KEY and META_API_KEY may also be set to the empty string, which
\* `|| undefined` treats as unset
Envs ==
    { [GEMINI_API_KEY |-> g, GOOGLE_API_KEY |-> k, OPENAI_API_KEY |-> o,
       ANTHROPIC_API_KEY |-> a, META_API_KEY |-> m, LLAMA_API_KEY |-> l,
       GOOGLE_CLOUD_PROJECT |-> p, GOOGLE_CLOUD_LOCATION |-> c] :
        g \in {Undefined, "gemini-key"},
        k \in {Undefined, "google-key"},
        o \in {Undefined, "", "openai-key"},
        a \in {Undefined, "anthropic-key"},
        m \in {Undefined, "", "meta-key"},
        l \in {Undefined, "llama-key"},
        p \in {Undefined, "my-project"},
        c \in {Undefined, "us-central1"} }

EnvNames == {"GEMINI_API_KEY", "GOOGLE_API_KEY", "OPENAI_API_KEY",
             "ANTHROPIC_API_KEY", "META_API_KEY", "LLAMA_API_KEY",
             "GOOGLE_CLOUD_PROJECT", "GOOGLE_CLOUD_LOCATION"}

\* the model names config.getModel() may return; <<>> is the empty string
ModelHints == {<<>>, DEFAULT_GEMINI_MODEL, Gpt4o, MyGeminiFt}

ProxySettings == {Undefined, "http://proxy.local:8080"}

\* the modes a caller may pass: the seven of AuthType, undefined, and a value
\* outside the enumeration read from a settings file
UnknownAuthType == "service-account"
RequestedAuthTypes == AuthType \cup {Undefined, UnknownAuthType}

-----------------------------------------------------------------------------
(* createContentGeneratorConfig *)

geminiApiKey(e) == OrUndefined(e.GEMINI_API_KEY)
googleApiKey(e) == OrUndefined(e.GOOGLE_API_KEY)

\* a resolver that falls back to the native provider's key
openaiApiKey_fallback(e) ==
    IF Truthy(e.OPENAI_API_KEY) THEN e.OPENAI_API_KEY
    ELSE OrUndefined(e.GEMINI_API_KEY)

openaiApiKey(e) == OrUndefined(e.OPENAI_API_KEY)
anthropicApiKey(e) == OrUndefined(e.ANTHROPIC_API_KEY)

\* a resolver that reads META_API_KEY only
metaApiKey_noAlias(e) == OrUndefined(e.META_API_KEY)

metaApiKey(e) ==
    IF Truthy(e.META_API_KEY) THEN e.META_API_KEY
    ELSE OrUndefined(e.LLAMA_API_KEY)
googleCloudProject(e) == OrUndefined(e.GOOGLE_CLOUD_PROJECT)
googleCloudLocation(e) == OrUndefined(e.GOOGLE_CLOUD_LOCATION)

\* config.getModel() || DEFAULT_GEMINI_MODEL
effectiveModel(m) == IF m = <<>> THEN DEFAULT_GEMINI_MODEL ELSE m

\* the config as first built: only model, authType and proxy are populated
baseConfig(m, proxy, mode) ==
    [model |-> effectiveModel(m), authType |-> mode, proxy |-> proxy,
     apiKey |-> Undefined, vertexai |-> Undefined, provider |-> Undefined]

\* a resolver that substitutes only for the default native model
secondaryModel_exactMatch(model, mode) ==
    IF model = DEFAULT_GEMINI_MODEL THEN DefaultModel(mode) ELSE model

\* the model of a secondary provider's config
secondaryModel(model, mode) ==
    IF Includes(model, GeminiToken) THEN DefaultModel(mode) ELSE model

\* the credential the resolver reads for a secondary auth mode
secondaryApiKey(e, mode) ==
    CASE mode = USE_OPENAI -> openaiApiKey(e)
      [] mode = USE_ANTHROPIC -> anthropicApiKey(e)
      [] mode = USE_META_LLAMA -> metaApiKey(e)

\* a resolver content with a project and no location
vertexCredentialPresent_projectOnly(e) ==
    \/ Truthy(googleApiKey(e))
    \/ Truthy(googleCloudProject(e))

\* whether the USE_VERTEX_AI branch is taken
vertexCredentialPresent(e) ==
    \/ Truthy(googleApiKey(e))
    \/ Truthy(googleCloudProject(e)) /\ Truthy(googleCloudLocation(e))

createContentGeneratorConfig(e, m, proxy, mode) ==
    LET base == baseConfig(m, proxy, mode) IN
    IF mode = LOGIN_WITH_GOOGLE \/ mode = CLOUD_SHELL
    THEN [base EXCEPT !.provider = "google"]
    ELSE IF mode = USE_GEMINI /\ Truthy(geminiApiKey(e))
    THEN [base EXCEPT !.apiKey = geminiApiKey(e), !.vertexai = "false",
                      !.provider = "google"]
    ELSE IF mode = USE_VERTEX_AI /\ vertexCredentialPresent(e)
    THEN [base EXCEPT !.apiKey = googleApiKey(e), !.vertexai = "true",
                      !.provider = "google"]
    ELSE IF mode \in SecondaryAuthTypes /\ Truthy(secondaryApiKey(e, mode))
    THEN [base EXCEPT !.apiKey = secondaryApiKey(e, mode),
                      !.provider = ProviderTag(mode),
                      !.model = secondaryModel(base.model, mode)]
    ELSE base

\* the getEffectiveModel calls the resolver issues: one in the USE_GEMINI branch
effectiveModelCalls(e, m, proxy, mode) ==
    IF mode = USE_GEMINI /\ Truthy(geminiApiKey(e))
    THEN << <<geminiApiKey(e), effectiveModel(m), proxy>> >>
    ELSE << >>

-----------------------------------------------------------------------------
(* createContentGenerator *)

NoGenerator ==
    [kind |-> "none", apiKey |-> Undefined, baseURL |-> Undefined,
     vertexai |-> Undefined]

NoError == << >>

TogetherBaseURL == "https://api.together.xyz/v1"

\* the name each missing-key message starts with
KeyErrorName(mode) ==
    CASE mode = USE_OPENAI -> "OpenAI"
      [] mode = USE_ANTHROPIC -> "Anthropic"
      [] mode = USE_META_LLAMA -> "Meta Llama"

missingKeyError(mode) ==
    <<KeyErrorName(mode), " API key is required but not provided">>

unsupportedAuthTypeError(mode) ==
    <<"Error creating contentGenerator: Unsupported authType: ",
      TemplateString(mode)>>

\* a factory whose Meta Llama adapter always talks to the Together endpoint
newAdapter_alwaysTogether(config) ==
    CASE config.authType = USE_OPENAI ->
            [kind |-> "OpenAIAdapter", apiKey |-> config.apiKey,
             baseURL |-> config.proxy, vertexai |-> Undefined]
      [] config.authType = USE_ANTHROPIC ->
            [kind |-> "AnthropicAdapter", apiKey |-> config.apiKey,
             baseURL |-> Undefined, vertexai |-> Undefined]
      [] config.authType = USE_META_LLAMA ->
            [kind |-> "MetaLlamaAdapter", apiKey |-> config.apiKey,
             baseURL |-> TogetherBaseURL, vertexai |-> Undefined]

\* the adapter a secondary mode constructs
newAdapter(config) ==
    CASE config.authType = USE_OPENAI ->
            [kind |-> "OpenAIAdapter", apiKey |-> config.apiKey,
             baseURL |-> config.proxy, vertexai |-> Undefined]
      [] config.authType = USE_ANTHROPIC ->
            [kind |-> "AnthropicAdapter", apiKey |-> config.apiKey,
             baseURL |-> Undefined, vertexai |-> Undefined]
      [] config.authType = USE_META_LLAMA ->
            [kind |-> "MetaLlamaAdapter", apiKey |-> config.apiKey,
             baseURL |-> IF Truthy(config.proxy) THEN config.proxy
                         ELSE TogetherBaseURL,
             vertexai |-> Undefined]

\* the modes served by the Code Assist generator
isCodeAssistAuth_dropCloudShell(config) ==
    config.authType = LOGIN_WITH_GOOGLE

isCodeAssistAuth(config) ==
    config.authType = LOGIN_WITH_GOOGLE \/ config.authType = CLOUD_SHELL

\* `!config.apiKey`
keyMissing_emptyOnly(config) == config.apiKey = ""

keyMissing(config) == ~Truthy(config.apiKey)

\* the factory's result: the generator it returns, or the Error it throws
createContentGenerator(config) ==
    IF isCodeAssistAuth(config)
    THEN [generator |-> [NoGenerator EXCEPT !.kind = "CodeAssist"],
          error |-> NoError]
    ELSE IF config.authType = USE_GEMINI \/ config.authType = USE_VERTEX_AI
    THEN [generator |->
            [kind |-> "GoogleGenAI",
             apiKey |-> IF config.apiKey = "" THEN Undefined ELSE config.apiKey,
             baseURL |-> Undefined, vertexai |-> config.vertexai],
          error |-> NoError]
    ELSE IF config.authType \in SecondaryAuthTypes
    THEN IF keyMissing(config)
         THEN [generator |-> NoGenerator,
               error |-> missingKeyError(config.authType)]
         ELSE [generator |-> newAdapter(config), error |-> NoError]
    ELSE [generator |-> NoGenerator,
          error |-> unsupportedAuthTypeError(config.authType)]

-----------------------------------------------------------------------------
(* Requests: GenerateContentParameters, CountTokensParameters.  The text of *)
(* Parts, of system instructions and of the translated messages is kept as *)
(* sequences of characters: the adapters join it, measure it and embed it   *)
(* in data URLs.                                                            *)

\* a Part: the tagged variant { text } or { inlineData: { mimeType, data } }
TextPart(t) ==
    [kind |-> "text", text |-> t, mimeType |-> << >>, data |-> << >>]

InlineDataPart(mimeType, data) ==
    [kind |-> "inlineData", text |-> << >>, mimeType |-> mimeType,
     data |-> data]

\* `part.text` as a condition: an empty string is falsy
hasText(part) == part.kind = "text" /\ part.text # << >>

\* `part.inlineData` as a condition
hasInlineData(part) == part.kind = "inlineData"

\* an entry of a Contents list: a Content { role, parts } or a bare string
Content(role, parts) ==
    [kind |-> "content", role |-> role, parts |-> parts, text |-> << >>]

StringContent(t) ==
    [kind |-> "string", role |-> Undefined, parts |-> << >>, text |-> t]

\* request.contents (ContentListUnion): a list of entries, one Content
\* object, or one string
ContentsArray(items) == [form |-> "array", items |-> items]
ContentsObject(content) == [form |-> "object", items |-> <<content>>]
ContentsString(t) == [form |-> "string", items |-> <<StringContent(t)>>]

\* request.config.systemInstruction: absent, a string, or a Content
NoSystemInstruction ==
    [kind |-> "none", text |-> << >>, content |-> Content(Undefined, << >>)]

SystemString(t) ==
    [kind |-> "string", text |-> t, content |-> Content(Undefined, << >>)]

SystemContent(parts) ==
    [kind |-> "content", text |-> << >>, content |-> Content("user", parts)]

\* request.config.tools: absent, or a list of entries each with or without
\* a functionDeclaration (given by its name)
NoTools == [present |-> FALSE, entries |-> << >>]
Tools(entries) == [present |-> TRUE, entries |-> entries]

GenerateContentParameters(contents, systemInstruction, tools) ==
    [contents |-> contents, systemInstruction |-> systemInstruction,
     tools |-> tools]

\* the texts, the image and the tool names of the requests considered
Hi == <<"H", "i">>
There == <<"t", "h", "e", "r", "e">>
BeBrief == <<"B", "e", " ", "b", "r", "i", "e", "f">>
ImagePart ==
    InlineDataPart(<<"i", "m", "a", "g", "e", "/", "p", "n", "g">>,
                   <<"A", "A", "A", "A">>)

\* the `system` field of a call: absent, or a string
NoSystem == [present |-> FALSE, text |-> << >>]

\* the arguments of a call on the adapter's client
NoCall ==
    [api |-> "none", messages |-> << >>, system |-> NoSystem,
     tools |-> NoTools, stream |-> FALSE, input |-> << >>]


\* a usage counter the provider left out
AbsentCount == -1

\* response.usage of a ChatCompletion: absent, or its counters
NoProviderUsage ==
    [present |-> FALSE, prompt_tokens |-> AbsentCount,
     completion_tokens |-> AbsentCount, total_tokens |-> AbsentCount]

ProviderUsage(prompt, completion, total) ==
    [present |-> TRUE, prompt_tokens |-> prompt,
     completion_tokens |-> completion, total_tokens |-> total]

\* choice.message.content: null or a string
NullContent == [isNull |-> TRUE, text |-> << >>]
StringMessage(t) == [isNull |-> FALSE, text |-> t]

\* an OpenAI ChatCompletion (also what a Llama provider returns)
ChatCompletion(content, finish, usage) ==
    [content |-> content, finish |-> finish, usage |-> usage]

\* an Anthropic Message: its content blocks, stop_reason and usage
AnthropicMessage(blocks, stop, usage) ==
    [content |-> blocks, finish |-> stop, usage |-> usage]

\* the provider has not answered a create call
NoReply == ChatCompletion(NullContent, Null, NoProviderUsage)

\* a GenerateContentResponse with one candidate and its usageMetadata
Usage(prompt, candidates, total) ==
    [promptTokenCount |-> prompt, candidatesTokenCount |-> candidates,
     totalTokenCount |-> total]

GenerateContentResponse(text, finishReason, usage) ==
    [text |-> text, role |-> "model", finishReason |-> finishReason,
     index |-> 0, usage |-> usage]

\* no generateContent or countTokens call has returned or thrown yet
NoResult ==
    [op |-> "none", error |-> NoError,
     response |-> GenerateContentResponse(<< >>, Undefined, Usage(0, 0, 0)),
     totalTokens |-> 0]

\* no embedContent call has been made yet
NoEmbedResult == [calls |-> 0, error |-> NoError, embeddings |-> 0]

-----------------------------------------------------------------------------
(* The resolver and the factory as steps of one session *)

NoConfig ==
    [model |-> << >>, authType |-> Undefined, proxy |-> Undefined,
     apiKey |-> Undefined, vertexai |-> Undefined, provider |-> Undefined]

NoFault == -1

\* the two calls in flight on one adapter instance
CallIds == {"first", "second"}

\* a call not yet made: whether it is generateContentStream ("stream") or
\* generateContent ("unary"), the events its provider stream will emit, the
\* state of its generator (or "awaiting" / "settled" for generateContent),
\* the events consumed and the partial responses yielded so far, the message
\* of the Error its provider threw, the Error the call threw, the provider's
\* response and the call's result
NoConcurrentCall ==
    [mode |-> "stream", stream |-> << >>, genState |-> "idle", pos |-> 0,
     received |-> << >>, fault |-> Undefined, error |-> NoError,
     response |-> NoReply, result |-> NoResult]

NoCalls == [c \in CallIds |-> NoConcurrentCall]

\* no request has been passed to an adapter
CallIdle ==
    /\ calls = NoCalls
    /\ request = GenerateContentParameters(ContentsArray(<< >>),
                                           NoSystemInstruction, NoTools)
    /\ lastCall = NoCall
    /\ reply = NoReply
    /\ opResult = NoResult
    /\ embedResult = NoEmbedResult
    /\ streamOpen = FALSE
    /\ consumer = "pulling"

StreamIdle ==
    /\ stream = << >>
    /\ faultAt = NoFault
    /\ faultMessage = Undefined
    /\ genState = "idle"
    /\ pos = 0
    /\ received = << >>
    /\ streamError = NoError
    /\ pulls = 0

Init ==
    /\ env \in Envs
    /\ getModel \in ModelHints
    /\ getProxy \in ProxySettings
    /\ authType \in RequestedAuthTypes
    /\ pc = "start"
    /\ cgConfig = NoConfig
    /\ modelChecks = << >>
    /\ generator = NoGenerator
    /\ factoryError = NoError
    /\ clientCalls = 0
    /\ StreamIdle
    /\ CallIdle

ResolveConfig ==
    /\ pc = "start"
    /\ cgConfig' = createContentGeneratorConfig(env, getModel, getProxy, authType)
    /\ modelChecks' = modelChecks \o
                        effectiveModelCalls(env, getModel, getProxy, authType)
    /\ pc' = "resolved"
    /\ UNCHANGED <<env, getModel, getProxy, authType, generator, factoryError,
                   clientCalls>>
    /\ UNCHANGED streamVars
    /\ UNCHANGED callVars
    /\ UNCHANGED consumerVars
    /\ UNCHANGED calls

CreateGenerator ==
    /\ pc = "resolved"
    /\ LET r == createContentGenerator(cgConfig) IN
        /\ generator' = r.generator
        /\ factoryError' = r.error
        /\ pc' = IF r.error = NoError THEN "created" ELSE "failed"
    /\ UNCHANGED <<env, getModel, getProxy, authType, cgConfig, modelChecks,
                   clientCalls>>
    /\ UNCHANGED streamVars
    /\ UNCHANGED callVars
    /\ UNCHANGED consumerVars
    /\ UNCHANGED calls

Next == ResolveConfig \/ CreateGenerator

Spec == Init /\ [][Next]_vars

-----------------------------------------------------------------------------
(* Properties of the resolver and the factory *)

\* the model the resolver starts from: the configured model, or the fixed
\* default when none is configured
ConfiguredModel == IF getModel = << >> THEN DEFAULT_GEMINI_MODEL ELSE getModel

IsSet(name) == env[name] # Undefined /\ env[name] # ""

\* the requested secondary mode's credential is present in the environment
SecondaryCredentialPresent ==
    \/ authType = USE_OPENAI /\ IsSet("OPENAI_API_KEY")
    \/ authType = USE_ANTHROPIC /\ IsSet("ANTHROPIC_API_KEY")
    \/ authType = USE_META_LLAMA
        /\ (IsSet("META_API_KEY") \/ IsSet("LLAMA_API_KEY"))

\* the value of the requested secondary mode's credential
SecondaryCredentialValue ==
    CASE authType = USE_OPENAI -> env.OPENAI_API_KEY
      [] authType = USE_ANTHROPIC -> env.ANTHROPIC_API_KEY
      [] authType = USE_META_LLAMA ->
            IF IsSet("META_API_KEY") THEN env.META_API_KEY
            ELSE env.LLAMA_API_KEY

\* the requested mode needs a credential and the environment has none for it
RequestedCredentialAbsent ==
    \/ authType = USE_GEMINI /\ ~IsSet("GEMINI_API_KEY")
    \/ authType = USE_VERTEX_AI
        /\ ~IsSet("GOOGLE_API_KEY")
        /\ ~(IsSet("GOOGLE_CLOUD_PROJECT") /\ IsSet("GOOGLE_CLOUD_LOCATION"))
    \/ authType \in SecondaryAuthTypes /\ ~SecondaryCredentialPresent

Resolved == pc # "start"

FactoryRan == pc \in {"created", "failed"}

(* C1: in a secondary auth mode whose credential is present, the resolved  *)
(* model is the provider's hardcoded default when the configured model      *)
(* contains 'gemini', and the configured model unchanged otherwise.         *)
C1_DefaultModelSubstitution ==
    (Resolved /\ authType \in SecondaryAuthTypes /\ SecondaryCredentialPresent)
        => IF Includes(ConfiguredModel, GeminiToken)
           THEN cgConfig.model =
                    (CASE authType = USE_OPENAI -> Gpt4o
                       [] authType = USE_ANTHROPIC -> Claude35Sonnet
                       [] authType = USE_META_LLAMA -> Llama31)
           ELSE cgConfig.model = ConfiguredModel

\* a model naming a secondary provider's model that contains the token was
\* replaced, and one that does not contain it was kept
C1_Witness ==
    /\ Resolved
    /\ authType = USE_ANTHROPIC
    /\ SecondaryCredentialPresent
    /\ \/ getModel = MyGeminiFt /\ cgConfig.model = Claude35Sonnet
       \/ getModel = Gpt4o /\ cgConfig.model = Gpt4o

(* C2: in a secondary auth mode whose credential is present, the config     *)
(* carries the requested authType, the provider's tag and the value of the  *)
(* provider's credential variable as apiKey.                                *)
C2_SecondaryProviderTagged ==
    (Resolved /\ authType \in SecondaryAuthTypes /\ SecondaryCredentialPresent)
        => /\ cgConfig.authType = authType
           /\ cgConfig.provider =
                (CASE authType = USE_OPENAI -> "openai"
                   [] authType = USE_ANTHROPIC -> "anthropic"
                   [] authType = USE_META_LLAMA -> "meta")
           /\ cgConfig.apiKey = SecondaryCredentialValue

C2_Witness ==
    /\ Resolved
    /\ authType = USE_META_LLAMA
    /\ env.META_API_KEY = "meta-key"
    /\ cgConfig.provider = "meta"
    /\ cgConfig.apiKey = "meta-key"

(* C3: in a secondary auth mode with no credential variable set, the        *)
(* resolver followed by the factory fails with an error naming the missing  *)
(* provider credential; no adapter is constructed and no provider call is   *)
(* issued.                                                                  *)
C3_MissingCredentialFails ==
    (authType \in SecondaryAuthTypes /\ ~SecondaryCredentialPresent)
        => /\ generator = NoGenerator
           /\ clientCalls = 0
           /\ modelChecks = << >>
           /\ pc # "created"
           /\ FactoryRan =>
                /\ pc = "failed"
                /\ factoryError =
                    <<(CASE authType = USE_OPENAI -> "OpenAI"
                         [] authType = USE_ANTHROPIC -> "Anthropic"
                         [] authType = USE_META_LLAMA -> "Meta Llama"),
                      " API key is required but not provided">>

C3_Witness ==
    /\ pc = "failed"
    /\ authType = USE_OPENAI
    /\ env.OPENAI_API_KEY = ""
    /\ env.ANTHROPIC_API_KEY = "anthropic-key"
    /\ factoryError[1] = "OpenAI"

(* C4: when the requested mode's credential is absent, or the mode is       *)
(* undefined, the resolver returns a config with provider, apiKey and       *)
(* vertexai unset and the configured model unsubstituted; only model,       *)
(* authType and proxy are populated.                                        *)
C4_AbsentCredentialLeavesConfigBare ==
    (Resolved /\ (RequestedCredentialAbsent \/ authType = Undefined))
        => /\ cgConfig.provider = Undefined
           /\ cgConfig.apiKey = Undefined
           /\ cgConfig.vertexai = Undefined
           /\ cgConfig.model = ConfiguredModel
           /\ cgConfig.authType = authType
           /\ cgConfig.proxy = getProxy

C4_Witness ==
    /\ Resolved
    /\ authType = USE_VERTEX_AI
    /\ env.GOOGLE_CLOUD_PROJECT = "my-project"
    /\ RequestedCredentialAbsent
    /\ getModel = DEFAULT_GEMINI_MODEL
    /\ cgConfig.model = DEFAULT_GEMINI_MODEL
    /\ cgConfig.provider = Undefined

\* the credential variables the requested mode's branch depends on
CredentialNames(mode) ==
    CASE mode = USE_GEMINI -> {"GEMINI_API_KEY"}
      [] mode = USE_VERTEX_AI ->
            {"GOOGLE_API_KEY", "GOOGLE_CLOUD_PROJECT", "GOOGLE_CLOUD_LOCATION"}
      [] mode = USE_OPENAI -> {"OPENAI_API_KEY"}
      [] mode = USE_ANTHROPIC -> {"ANTHROPIC_API_KEY"}
      [] mode = USE_META_LLAMA -> {"META_API_KEY", "LLAMA_API_KEY"}
      [] OTHER -> {}

(* C5: the config returned for an environment equals the config returned    *)
(* for every other environment that agrees with it on the credential        *)
(* variables of the requested mode (same model hint and proxy), whatever    *)
(* the other providers' credentials are.                                    *)
C5_CredentialNonInterference ==
    pc = "resolved" =>
        \A e2 \in Envs :
            (\A n \in CredentialNames(authType) : e2[n] = env[n])
                => createContentGeneratorConfig(e2, getModel, getProxy, authType)
                        = cgConfig

\* a secondary mode without its own credential, resolved while the native
\* provider's and another secondary provider's credentials are present
C5_Witness ==
    /\ pc = "resolved"
    /\ authType = USE_OPENAI
    /\ env.OPENAI_API_KEY = Undefined
    /\ env.GEMINI_API_KEY = "gemini-key"
    /\ env.ANTHROPIC_API_KEY = "anthropic-key"
    /\ cgConfig.provider = Undefined

\* the environment in which exactly one variable is set
OnlySet(name) == [n \in EnvNames |-> IF n = name THEN "the-key" ELSE Undefined]

\* with only `name` set, the resolver in `mode` tags the provider and takes
\* the key from `name`
AcceptsName(mode, name) ==
    LET c == createContentGeneratorConfig(OnlySet(name), getModel, getProxy, mode)
    IN  c.provider = ProviderTag(mode) /\ c.apiKey = "the-key"

\* the variable names a secondary mode accepts its credential under
AcceptedNames(mode) == { n \in EnvNames : AcceptsName(mode, n) }

\* the secondary modes that accept either of two variable names
ModesWithAlias ==
    { mode \in SecondaryAuthTypes : Cardinality(AcceptedNames(mode)) >= 2 }

(* C6 as stated: two of the three secondary providers accept either of two  *)
(* aliased credential variable names.                                       *)
C6_TwoProvidersHaveAlias == Cardinality(ModesWithAlias) = 2

(* C6: exactly one secondary provider, Meta Llama, accepts either of two    *)
(* aliased credential variable names (META_API_KEY, LLAMA_API_KEY); with    *)
(* only the alias set the resolver tags the provider and takes the alias's  *)
(* value; OpenAI and Anthropic accept their one variable only.              *)
C6_OnlyMetaHasAlias ==
    /\ ModesWithAlias = {USE_META_LLAMA}
    /\ (Resolved /\ authType = USE_META_LLAMA
            /\ ~IsSet("META_API_KEY") /\ IsSet("LLAMA_API_KEY"))
        => cgConfig.provider = "meta" /\ cgConfig.apiKey = env.LLAMA_API_KEY
    /\ (Resolved /\ authType = USE_OPENAI /\ ~IsSet("OPENAI_API_KEY"))
        => cgConfig.provider = Undefined
    /\ (Resolved /\ authType = USE_ANTHROPIC /\ ~IsSet("ANTHROPIC_API_KEY"))
        => cgConfig.provider = Undefined

C6_Witness ==
    /\ Resolved
    /\ authType = USE_META_LLAMA
    /\ env.META_API_KEY = Undefined
    /\ env.LLAMA_API_KEY = "llama-key"
    /\ cgConfig.provider = "meta"
    /\ cgConfig.apiKey = "llama-key"

UnsupportedPrefix == "Error creating contentGenerator: Unsupported authType: "

(* C7: the factory, given a config whose authType is none of the seven      *)
(* known modes, fails with the unsupported-auth-type error naming that      *)
(* mode, constructs no generator and issues no provider call; for a known   *)
(* mode it never raises that error.                                         *)
C7_UnsupportedAuthType ==
    FactoryRan =>
        IF cgConfig.authType \notin AuthType
        THEN /\ pc = "failed"
             /\ factoryError =
                    <<UnsupportedPrefix,
                      IF cgConfig.authType = Undefined THEN "undefined"
                      ELSE cgConfig.authType>>
             /\ generator = NoGenerator
             /\ clientCalls = 0
        ELSE factoryError = NoError \/ factoryError[1] # UnsupportedPrefix

C7_Witness ==
    /\ pc = "failed"
    /\ cgConfig.authType = Undefined
    /\ factoryError = <<UnsupportedPrefix, "undefined">>

-----------------------------------------------------------------------------
(* Provider stream events *)

\* the text deltas a provider sends
Texts == {"Hel", "lo"}

\* an OpenAI ChatCompletionChunk (also what a Llama provider sends): the
\* number of choices, which fields choices[0].delta has, delta.content and
\* choices[0].finish_reason
Chunk(delta, content, finish) ==
    [type |-> "chat.completion.chunk", choices |-> 1, delta |-> delta,
     text |-> content, finish |-> finish]

\* the chunk with `choices: []` that reports usage
UsageChunk ==
    [type |-> "chat.completion.chunk", choices |-> 0, delta |-> Undefined,
     text |-> Undefined, finish |-> Null]

OpenAIEvents ==
    { Chunk("content", t, Null) : t \in Texts }
        \cup { Chunk("content", "lo", "stop"),
               Chunk("empty", Undefined, "stop"),
               Chunk("empty", Undefined, "length"),
               Chunk("role", Undefined, Null),
               Chunk("tool_calls", Undefined, Null),
               UsageChunk }

\* an Anthropic RawMessageStreamEvent: its type, delta.type, delta.text and
\* delta.stop_reason
AnthropicEvent(type, delta, text, stop) ==
    [type |-> type, choices |-> 0, delta |-> delta, text |-> text,
     finish |-> stop]

AnthropicEvents ==
    { AnthropicEvent("content_block_delta", "text_delta", t, Null) : t \in Texts }
        \cup { AnthropicEvent("content_block_delta", "input_json_delta",
                              Undefined, Null),
               AnthropicEvent("content_block_start", Undefined, Undefined, Null),
               AnthropicEvent("message_delta", Undefined, Undefined, "end_turn"),
               AnthropicEvent("message_delta", Undefined, Undefined, "max_tokens"),
               AnthropicEvent("message_stop", Undefined, Undefined, Null) }

\* the events the provider behind an adapter sends
ProviderEvents(kind) ==
    IF kind = "AnthropicAdapter" THEN AnthropicEvents ELSE OpenAIEvents

\* longest provider stream considered
MaxStreamLen == 3

\* next() calls after which a consumer of a closed generator stops calling
MaxPulls == 5

SeqsUpTo(S, n) == UNION { [1..k -> S] : k \in 0..n }

\* messages of the Error a provider stream throws
FaultMessages == {"socket hang up", "429 rate limit"}

-----------------------------------------------------------------------------
(* generateContentStream of the three adapters *)

STOP == "STOP"
MAX_TOKENS == "MAX_TOKENS"
SAFETY == "SAFETY"
OTHER_REASON == "OTHER"

\* OpenAIAdapter.mapFinishReason
openaiMapFinishReason(reason) ==
    CASE reason = "stop" -> STOP
      [] reason = "length" -> MAX_TOKENS
      [] reason = "tool_calls" -> STOP
      [] reason = "content_filter" -> SAFETY
      [] OTHER -> OTHER_REASON

\* AnthropicAdapter.mapFinishReason
anthropicMapFinishReason(reason) ==
    CASE reason = "end_turn" -> STOP
      [] reason = "max_tokens" -> MAX_TOKENS
      [] reason = "stop_sequence" -> STOP
      [] reason = "tool_use" -> STOP
      [] OTHER -> OTHER_REASON

\* MetaLlamaAdapter.mapFinishReason
metaMapFinishReason(reason) ==
    CASE reason = "stop" -> STOP
      [] reason = "length" -> MAX_TOKENS
      [] reason = "content_filter" -> SAFETY
      [] OTHER -> OTHER_REASON

\* `x || ''`
OrEmpty(v) == IF Truthy(v) THEN v ELSE ""

\* a GenerateContentResponse with one candidate
PartialResponse(text, finishReason) ==
    [text |-> text, role |-> "model", finishReason |-> finishReason, index |-> 0]

\* OpenAIAdapter.convertOpenAIStreamChunkToGemini
convertOpenAIStreamChunkToGemini(chunk) ==
    PartialResponse(OrEmpty(chunk.text),
                    IF chunk.finish # Null
                    THEN openaiMapFinishReason(chunk.finish) ELSE Undefined)

\* MetaLlamaAdapter.convertOpenAIStreamChunkToGemini
metaConvertOpenAIStreamChunkToGemini(chunk) ==
    PartialResponse(OrEmpty(chunk.text),
                    IF chunk.finish # Null
                    THEN metaMapFinishReason(chunk.finish) ELSE Undefined)

\* AnthropicAdapter.convertAnthropicStreamChunkToGemini: no finishReason
convertAnthropicStreamChunkToGemini(chunk) ==
    PartialResponse(OrEmpty(chunk.text), Undefined)

\* `chunk.choices[0]?.delta`
chunkHasDelta(chunk) == chunk.choices >= 1 /\ chunk.delta # Undefined

\* `chunk.type === 'content_block_delta' && chunk.delta.type === 'text_delta'`
isTextDelta(chunk) ==
    chunk.type = "content_block_delta" /\ chunk.delta = "text_delta"

\* the condition under which the loop yields for a chunk
yields(kind, chunk) ==
    IF kind = "AnthropicAdapter" THEN isTextDelta(chunk) ELSE chunkHasDelta(chunk)

\* what the loop yields for a chunk
convertChunk(kind, chunk) ==
    CASE kind = "OpenAIAdapter" -> convertOpenAIStreamChunkToGemini(chunk)
      [] kind = "AnthropicAdapter" -> convertAnthropicStreamChunkToGemini(chunk)
      [] kind = "MetaLlamaAdapter" -> metaConvertOpenAIStreamChunkToGemini(chunk)

\* the provider name each adapter's errors start with
errorPrefix(kind) ==
    CASE kind = "OpenAIAdapter" -> "OpenAI API error: "
      [] kind = "AnthropicAdapter" -> "Anthropic API error: "
      [] kind = "MetaLlamaAdapter" -> "Meta Llama API error: "

\* a catch clause that discards what it caught
wrapError_dropMessage(kind, message) ==
    <<errorPrefix(kind), "Error: ", "stream failed">>

\* `new Error(`<provider> API error: ${error}`)`, error an Error(message)
wrapError(kind, message) == <<errorPrefix(kind), "Error: ", message>>

\* the body of `for await (const chunk of stream)`, resumed with i events
\* consumed, up to its next yield, the end of the stream or a throw; a fault
\* at 0 is also what a rejected create call does: both throw inside the try
\* before any chunk is read
RECURSIVE forAwait(_, _, _, _)
forAwait(kind, s, fault, i) ==
    IF fault = i
    THEN [outcome |-> "throw", pos |-> i, value |-> Undefined]
    ELSE IF i = Len(s)
    THEN [outcome |-> "return", pos |-> i, value |-> Undefined]
    ELSE IF yields(kind, s[i + 1])
    THEN [outcome |-> "yield", pos |-> i + 1,
          value |-> convertChunk(kind, s[i + 1])]
    ELSE forAwait(kind, s, fault, i + 1)

-----------------------------------------------------------------------------
(* Request translation of the three adapters *)

\* Array.prototype.join
RECURSIVE Join(_, _)
Join(strings, sep) ==
    IF Len(strings) = 0 THEN << >>
    ELSE IF Len(strings) = 1 THEN strings[1]
    ELSE strings[1] \o sep \o Join(Tail(strings), sep)

\* `part.text || ''`
partText(part) == IF hasText(part) THEN part.text ELSE << >>

\* `content.parts.map(part => part.text || '').join(' ')`
partsText(parts) ==
    Join([i \in 1..Len(parts) |-> partText(parts[i])], <<" ">>)

\* extractTextFromContents (the same in the three adapters)
extractTextFromContents(contents) ==
    CASE contents.form = "string" -> contents.items[1].text
      [] contents.form = "array" ->
            Join([i \in 1..Len(contents.items) |->
                    IF contents.items[i].kind = "string"
                    THEN contents.items[i].text
                    ELSE partsText(contents.items[i].parts)], <<" ">>)
      [] contents.form = "object" -> partsText(contents.items[1].parts)

\* normalizeContents (the same in the three adapters)
normalizeContents(contents) == contents.items

\* `request.contents` as a condition: only the empty string is falsy
contentsTruthy(contents) ==
    ~(contents.form = "string" /\ contents.items[1].text = << >>)

\* a translation that takes only a string for a system instruction
systemInstructionTruthy_stringOnly(si) ==
    si.kind = "string" /\ si.text # << >>

\* `request.config?.systemInstruction` as a condition
systemInstructionTruthy(si) ==
    si.kind = "content" \/ (si.kind = "string" /\ si.text # << >>)

\* the content of a translated message: a bare string or an array of blocks
BareString(t) == [kind |-> "string", text |-> t, blocks |-> << >>]
BlockArray(blocks) == [kind |-> "array", text |-> << >>, blocks |-> blocks]

TextBlock(t) == [type |-> "text", text |-> t, url |-> << >>]
ImageUrlBlock(url) == [type |-> "image_url", text |-> << >>, url |-> url]

Message(role, content) == [role |-> role, content |-> content]

\* the loop of OpenAIAdapter.convertGeminiPartsToOpenAI; the image URL is
\* `data:${mimeType};base64,${data}`
RECURSIVE openaiContentParts(_)
openaiContentParts(parts) ==
    IF parts = << >> THEN << >>
    ELSE LET part == Head(parts)
             rest == openaiContentParts(Tail(parts))
         IN  IF hasText(part) THEN <<TextBlock(part.text)>> \o rest
             ELSE IF hasInlineData(part)
             THEN <<ImageUrlBlock(<<"d", "a", "t", "a", ":">> \o part.mimeType
                        \o <<";", "b", "a", "s", "e", "6", "4", ",">>
                        \o part.data)>> \o rest
             ELSE rest

\* the final `contentParts.length === 1 && contentParts[0].type === 'text'`
collapse(blocks) ==
    IF Len(blocks) = 1 /\ blocks[1].type = "text"
    THEN BareString(blocks[1].text)
    ELSE BlockArray(blocks)

\* OpenAIAdapter.convertGeminiPartsToOpenAI
convertGeminiPartsToOpenAI(parts) ==
    IF Len(parts) = 1 /\ hasText(parts[1])
    THEN BareString(parts[1].text)
    ELSE collapse(openaiContentParts(parts))

\* a text conversion that knows text Parts only
partsToText_textOnly(parts, placeholder) ==
    Join([i \in 1..Len(parts) |-> partText(parts[i])], <<" ">>)

\* convertGeminiPartsToText of OpenAIAdapter and MetaLlamaAdapter, which
\* differ in the placeholder
partsToText(parts, placeholder) ==
    Join([i \in 1..Len(parts) |->
            IF hasText(parts[i]) THEN parts[i].text
            ELSE IF hasInlineData(parts[i]) THEN placeholder
            ELSE << >>], <<" ">>)

\* OpenAIAdapter.convertGeminiPartsToText: an image is '[Image data]'
convertGeminiPartsToText(parts) ==
    BareString(partsToText(parts,
        <<"[", "I", "m", "a", "g", "e", " ", "d", "a", "t", "a",
          "]">>))

\* MetaLlamaAdapter.convertGeminiPartsToText: an image is
\* '[Image data not supported by this provider]'
metaConvertGeminiPartsToText(parts) ==
    BareString(partsToText(parts,
        <<"[", "I", "m", "a", "g", "e", " ", "d", "a", "t", "a",
          " ", "n", "o", "t", " ", "s", "u", "p", "p", "o", "r",
          "t", "e", "d", " ", "b", "y", " ", "t", "h", "i", "s",
          " ", "p", "r", "o", "v", "i", "d", "e", "r", "]">>))

\* the loop of AnthropicAdapter.convertGeminiPartsToAnthropic: an image is
\* the text block '[Image content - not supported in this adapter]'
RECURSIVE anthropicContentBlocks(_)
anthropicContentBlocks(parts) ==
    IF parts = << >> THEN << >>
    ELSE LET part == Head(parts)
             rest == anthropicContentBlocks(Tail(parts))
         IN  IF hasText(part) THEN <<TextBlock(part.text)>> \o rest
             ELSE IF hasInlineData(part)
             THEN <<TextBlock(
                      <<"[", "I", "m", "a", "g", "e", " ", "c", "o", "n", "t",
                        "e", "n", "t", " ", "-", " ", "n", "o", "t", " ", "s",
                        "u", "p", "p", "o", "r", "t", "e", "d", " ", "i", "n",
                        " ", "t", "h", "i", "s", " ", "a", "d", "a", "p", "t",
                        "e", "r", "]">>)>>
                    \o rest
             ELSE rest

\* AnthropicAdapter.convertGeminiPartsToAnthropic
convertGeminiPartsToAnthropic(parts) ==
    IF Len(parts) = 1 /\ hasText(parts[1]) /\ ~hasInlineData(parts[1])
    THEN BareString(parts[1].text)
    ELSE collapse(anthropicContentBlocks(parts))

\* how each adapter translates the parts of a Content of a role
convertParts(kind, role, parts) ==
    CASE kind = "OpenAIAdapter" /\ role = "user" ->
            convertGeminiPartsToOpenAI(parts)
      [] kind = "OpenAIAdapter" /\ role = "model" ->
            convertGeminiPartsToText(parts)
      [] kind = "AnthropicAdapter" -> convertGeminiPartsToAnthropic(parts)
      [] kind = "MetaLlamaAdapter" -> metaConvertGeminiPartsToText(parts)

\* the loop over the normalized contents: a string is a user message, a
\* Content of role user or model one message, any other entry is skipped
RECURSIVE convertEntries(_, _)
convertEntries(kind, entries) ==
    IF entries = << >> THEN << >>
    ELSE LET content == Head(entries)
             rest == convertEntries(kind, Tail(entries))
         IN  IF content.kind = "string"
             THEN <<Message("user", BareString(content.text))>> \o rest
             ELSE IF content.role = "user"
             THEN <<Message("user", convertParts(kind, "user", content.parts))>>
                    \o rest
             ELSE IF content.role = "model"
             THEN <<Message("assistant",
                            convertParts(kind, "model", content.parts))>>
                    \o rest
             ELSE rest

\* the messages translated from request.contents
convertContents(kind, req) ==
    IF contentsTruthy(req.contents)
    THEN convertEntries(kind, normalizeContents(req.contents))
    ELSE << >>

\* the text of a system instruction: the string, or the text extracted from
\* the Content (OpenAI and Meta pass the Content, Anthropic a list of it)
systemInstructionText(kind, si) ==
    IF si.kind = "string" THEN si.text
    ELSE IF kind = "AnthropicAdapter"
    THEN extractTextFromContents(ContentsArray(<<si.content>>))
    ELSE extractTextFromContents(ContentsObject(si.content))

\* convertGeminiToOpenAIMessages of OpenAIAdapter and MetaLlamaAdapter
convertGeminiToOpenAIMessages(kind, req) ==
    (IF systemInstructionTruthy(req.systemInstruction)
     THEN <<Message("system",
              BareString(systemInstructionText(kind, req.systemInstruction)))>>
     ELSE << >>)
        \o convertContents(kind, req)

\* AnthropicAdapter.convertGeminiToAnthropicMessages
convertGeminiToAnthropicMessages(req) ==
    convertContents("AnthropicAdapter", req)

\* AnthropicAdapter.extractSystemPrompt
extractSystemPrompt(req) ==
    IF systemInstructionTruthy(req.systemInstruction)
    THEN [present |-> TRUE,
          text |-> systemInstructionText("AnthropicAdapter",
                                         req.systemInstruction)]
    ELSE NoSystem

\* `tool.functionDeclaration.name` throws a TypeError for an entry without
\* a functionDeclaration
toolsThrow(tools) ==
    \E i \in 1..Len(tools.entries) : tools.entries[i] = Undefined

\* OpenAIAdapter.convertGeminiToolsToOpenAI: one function tool per entry
convertGeminiToolsToOpenAI(tools) ==
    Tools([i \in 1..Len(tools.entries) |->
            [type |-> "function", name |-> tools.entries[i]]])

\* AnthropicAdapter.convertGeminiToolsToAnthropic: one tool per entry
convertGeminiToolsToAnthropic(tools) ==
    Tools([i \in 1..Len(tools.entries) |->
            [type |-> Undefined, name |-> tools.entries[i]]])

\* whether an adapter translates request.config.tools at all: the Meta
\* Llama adapter never reads them
translatesTools(kind) == kind # "MetaLlamaAdapter"

\* the translation of a request by generateContent and generateContentStream:
\* whether it throws, and otherwise the arguments of the create call
translateRequest(kind, req, streaming) ==
    IF translatesTools(kind) /\ req.tools.present
        /\ toolsThrow(req.tools)
    THEN [threw |-> TRUE, call |-> NoCall]
    ELSE [threw |-> FALSE,
          call |->
            [api |-> IF kind = "AnthropicAdapter" THEN "messages.create"
                     ELSE "chat.completions.create",
             messages |-> IF kind = "AnthropicAdapter"
                          THEN convertGeminiToAnthropicMessages(req)
                          ELSE convertGeminiToOpenAIMessages(kind, req),
             system |-> IF kind = "AnthropicAdapter"
                        THEN extractSystemPrompt(req) ELSE NoSystem,
             tools |-> IF ~req.tools.present THEN NoTools
                       ELSE IF kind = "OpenAIAdapter"
                       THEN convertGeminiToolsToOpenAI(req.tools)
                       ELSE IF kind = "AnthropicAdapter"
                       THEN convertGeminiToolsToAnthropic(req.tools)
                       ELSE NoTools,
             stream |-> streaming, input |-> << >>]]

\* `${error}` of the TypeError a tool entry without functionDeclaration raises
ToolTypeError ==
    <<"TypeError: ", "Cannot read properties of undefined (reading 'name')">>

\* the Error generateContent and the stream generator throw for it
translationError(kind) == <<errorPrefix(kind)>> \o ToolTypeError

-----------------------------------------------------------------------------
(* The streaming call as steps of a session *)

\* the auth mode whose generator is each adapter
PrimaryName(mode) ==
    CASE mode = USE_OPENAI -> "OPENAI_API_KEY"
      [] mode = USE_ANTHROPIC -> "ANTHROPIC_API_KEY"
      [] mode = USE_META_LLAMA -> "META_API_KEY"

\* the requests passed to the streaming call: a user message, alone or
\* with a tool entry that has no functionDeclaration
PlainRequest ==
    GenerateContentParameters(
        ContentsArray(<<Content("user", <<TextPart(Hi)>>)>>),
        NoSystemInstruction, NoTools)

UnreadableToolsRequest ==
    [PlainRequest EXCEPT !.tools = Tools(<<Undefined>>)]

StreamRequests == {PlainRequest, UnreadableToolsRequest}

\* a session in which the factory has returned an adapter
AdapterCreated ==
    /\ authType \in SecondaryAuthTypes
    /\ env = [n \in EnvNames |->
                IF n = PrimaryName(authType) THEN "the-key" ELSE Undefined]
    /\ getModel = DEFAULT_GEMINI_MODEL
    /\ getProxy = Undefined
    /\ cgConfig = createContentGeneratorConfig(env, getModel, getProxy, authType)
    /\ modelChecks = << >>
    /\ generator = createContentGenerator(cgConfig).generator
    /\ factoryError = NoError
    /\ pc = "created"
    /\ clientCalls = 0

\* a session with an adapter, the request of its streaming call and the
\* stream its provider is going to send; a request whose translation throws
\* never reaches the provider
InitStream ==
    /\ AdapterCreated
    /\ request \in StreamRequests
    /\ stream \in IF translateRequest(generator.kind, request, TRUE).threw
                  THEN {<< >>}
                  ELSE SeqsUpTo(ProviderEvents(generator.kind), MaxStreamLen)
    /\ faultAt \in IF translateRequest(generator.kind, request, TRUE).threw
                   THEN {NoFault}
                   ELSE {NoFault} \cup (0..Len(stream))
    /\ faultMessage \in IF faultAt = NoFault THEN {Undefined} ELSE FaultMessages
    /\ genState = "idle"
    /\ pos = 0
    /\ received = << >>
    /\ streamError = NoError
    /\ pulls = 0
    /\ lastCall = NoCall
    /\ reply = NoReply
    /\ opResult = NoResult
    /\ embedResult = NoEmbedResult
    /\ streamOpen = FALSE
    /\ consumer = "pulling"
    /\ calls = NoCalls

\* generateContentStream(request): returns streamGenerator() without running
\* any of its body
GenerateContentStream ==
    /\ genState = "idle"
    /\ opResult.op = "none"
    /\ genState' = "suspendedStart"
    /\ UNCHANGED <<stream, faultAt, faultMessage, pos, received, streamError,
                   pulls, clientCalls>>
    /\ UNCHANGED configVars
    /\ UNCHANGED calls
    /\ UNCHANGED callVars
    /\ UNCHANGED consumerVars

\* the consumer's next() on a generator that has not finished: the body runs
\* (from its start: the translation of the request and the create call on
\* the client) up to the next yield, the end of the stream, or a throw
\* caught and rethrown wrapped
PullNext ==
    /\ genState \in {"suspendedStart", "suspendedYield"}
    /\ consumer = "pulling"
    /\ pulls' = pulls + 1
    /\ LET starting == genState = "suspendedStart"
           t == translateRequest(generator.kind, request, TRUE)
       IN  IF starting /\ t.threw
           THEN /\ genState' = "closed"
                /\ streamError' = translationError(generator.kind)
                /\ UNCHANGED <<pos, received, clientCalls, lastCall, streamOpen>>
           ELSE /\ clientCalls' = IF starting THEN clientCalls + 1
                                  ELSE clientCalls
                /\ lastCall' = IF starting THEN t.call ELSE lastCall
                /\ LET r == forAwait(generator.kind, stream, faultAt, pos) IN
                    /\ pos' = r.pos
                    /\ received' = IF r.outcome = "yield"
                                   THEN Append(received, r.value) ELSE received
                    /\ genState' = IF r.outcome = "yield"
                                   THEN "suspendedYield" ELSE "closed"
                    /\ streamError' = IF r.outcome = "throw"
                                      THEN wrapError(generator.kind, faultMessage)
                                      ELSE streamError
                    /\ streamOpen' = (r.outcome = "yield")
    /\ UNCHANGED <<stream, faultAt, faultMessage, request, reply, opResult,
                   embedResult, consumer>>
    /\ UNCHANGED configVars
    /\ UNCHANGED calls

\* next() on a finished generator: { done: true }, nothing runs
PullClosed ==
    /\ genState = "closed"
    /\ consumer = "pulling"
    /\ pulls < MaxPulls
    /\ pulls' = pulls + 1
    /\ UNCHANGED <<stream, faultAt, faultMessage, genState, pos, received,
                   streamError, clientCalls>>
    /\ UNCHANGED configVars
    /\ UNCHANGED calls
    /\ UNCHANGED callVars
    /\ UNCHANGED consumerVars

\* the consumer ends the iteration with return(), as leaving a for await
\* loop does: a generator suspended at the yield inside
\* `for await (const chunk of stream)` completes through the loop's exit,
\* which calls return() on the provider stream's iterator and so releases
\* the transport; a generator not yet started completes without running
ReturnGenerator ==
    /\ genState \in {"suspendedStart", "suspendedYield"}
    /\ consumer = "pulling"
    /\ genState' = "closed"
    /\ streamOpen' = FALSE
    /\ consumer' = "finished"
    /\ UNCHANGED <<stream, faultAt, faultMessage, pos, received, streamError,
                   pulls, clientCalls>>
    /\ UNCHANGED configVars
    /\ UNCHANGED calls
    /\ UNCHANGED callVars

\* the consumer stops calling next() and drops the generator without
\* calling return(): no code of the adapter runs, the generator stays
\* suspended and the request's abort signal was never passed to the provider
AbandonGenerator ==
    /\ genState \in {"suspendedStart", "suspendedYield"}
    /\ consumer = "pulling"
    /\ consumer' = "finished"
    /\ UNCHANGED <<clientCalls, streamOpen>>
    /\ UNCHANGED streamVars
    /\ UNCHANGED configVars
    /\ UNCHANGED calls
    /\ UNCHANGED callVars

NextStream ==
    \/ GenerateContentStream
    \/ PullNext
    \/ PullClosed
    \/ ReturnGenerator
    \/ AbandonGenerator

SpecStream == InitStream /\ [][NextStream]_vars

-----------------------------------------------------------------------------
(* Provider responses and their translation *)

\* the responses each provider may return: every finish signal; usage
\* complete, absent, without a total and with the completion counter only;
\* a null content and a content of several blocks
ProviderResponses(kind) ==
    IF kind = "AnthropicAdapter"
    THEN { AnthropicMessage(<<TextBlock(Hi)>>, s,
                            ProviderUsage(5, 7, AbsentCount)) :
             s \in {"end_turn", "max_tokens", "stop_sequence", "tool_use",
                    "pause_turn", Null} }
           \cup { AnthropicMessage(<<TextBlock(Hi)>>, "end_turn",
                                   ProviderUsage(0, 3, AbsentCount)),
                  AnthropicMessage(
                    <<TextBlock(Hi),
                      [type |-> "tool_use", text |-> << >>, url |-> << >>],
                      TextBlock(There)>>,
                    "tool_use", ProviderUsage(5, 7, AbsentCount)) }
    ELSE { ChatCompletion(StringMessage(Hi), f, ProviderUsage(5, 7, 12)) :
             f \in {"stop", "length", "tool_calls", "content_filter",
                    "function_call", Null} }
           \cup { ChatCompletion(StringMessage(Hi), "stop", u) :
                    u \in {NoProviderUsage,
                           ProviderUsage(5, 7, AbsentCount),
                           ProviderUsage(AbsentCount, 7, AbsentCount)} }
           \cup { ChatCompletion(NullContent, "tool_calls",
                                 ProviderUsage(5, 7, 12)) }

\* `response.usage?.x || 0`
orZero(usage, count) ==
    IF ~usage.present \/ count = AbsentCount THEN 0 ELSE count

\* usageMetadata of OpenAIAdapter and MetaLlamaAdapter
openaiUsageMetadata(usage) ==
    Usage(orZero(usage, usage.prompt_tokens),
          orZero(usage, usage.completion_tokens),
          orZero(usage, usage.total_tokens))

\* usageMetadata of AnthropicAdapter
anthropicUsageMetadata(usage) ==
    Usage(usage.prompt_tokens, usage.completion_tokens,
          usage.prompt_tokens + usage.completion_tokens)

\* `choice.message.content || ''`
messageText(content) == IF content.isNull THEN << >> ELSE content.text

\* OpenAIAdapter.convertOpenAIToGeminiResponse
convertOpenAIToGeminiResponse(response) ==
    GenerateContentResponse(messageText(response.content),
                            openaiMapFinishReason(response.finish),
                            openaiUsageMetadata(response.usage))

\* MetaLlamaAdapter.convertOpenAIToGeminiResponse
metaConvertOpenAIToGeminiResponse(response) ==
    GenerateContentResponse(messageText(response.content),
                            metaMapFinishReason(response.finish),
                            openaiUsageMetadata(response.usage))

\* `.filter(block => block.type === 'text').map(block => block.text).join('')`
RECURSIVE textOfBlocks(_)
textOfBlocks(blocks) ==
    IF blocks = << >> THEN << >>
    ELSE (IF Head(blocks).type = "text" THEN Head(blocks).text ELSE << >>)
            \o textOfBlocks(Tail(blocks))

\* AnthropicAdapter.convertAnthropicToGeminiResponse
convertAnthropicToGeminiResponse(response) ==
    GenerateContentResponse(textOfBlocks(response.content),
                            anthropicMapFinishReason(response.finish),
                            anthropicUsageMetadata(response.usage))

convertResponse(kind, response) ==
    CASE kind = "OpenAIAdapter" -> convertOpenAIToGeminiResponse(response)
      [] kind = "AnthropicAdapter" -> convertAnthropicToGeminiResponse(response)
      [] kind = "MetaLlamaAdapter" -> metaConvertOpenAIToGeminiResponse(response)

-----------------------------------------------------------------------------
(* countTokens and embedContent *)

\* characters per token of the OpenAI and Meta Llama estimates
CharsPerToken == 4

\* the Anthropic estimate divides by 3.5, that is by 7 / 2
AnthropicCharsPerTwoTokens == 7

\* Math.ceil(a / b) for integers a >= 0 and b > 0
CeilDiv(a, b) == (a + b - 1) \div b

\* totalTokens of countTokens
countTokens(kind, contents) ==
    LET length == Len(extractTextFromContents(contents)) IN
    IF kind = "AnthropicAdapter"
    THEN CeilDiv(2 * length, AnthropicCharsPerTwoTokens)
    ELSE CeilDiv(length, CharsPerToken)

\* an adapter that sends embedContent of a Llama provider to the
\* OpenAI-compatible embeddings endpoint
supportsEmbeddings_openaiCompatible(kind) ==
    kind = "OpenAIAdapter" \/ kind = "MetaLlamaAdapter"

\* whether embedContent calls the provider
supportsEmbeddings(kind) == kind = "OpenAIAdapter"

\* the Error embedContent of AnthropicAdapter and MetaLlamaAdapter throws
embeddingsUnsupportedError(kind) ==
    <<IF kind = "AnthropicAdapter" THEN "Anthropic does not support "
      ELSE "Meta Llama providers typically do not support ",
      "embeddings", ". Please use a ", "different provider",
      " for embedding tasks.">>

\* `new Error(`OpenAI Embeddings API error: ${error}`)`
embeddingsError(message) ==
    <<"OpenAI Embeddings API error: ", "Error: ", message>>

\* the arguments of client.embeddings.create
embeddingsCall(contents) ==
    [NoCall EXCEPT !.api = "embeddings.create",
                   !.input = extractTextFromContents(contents)]

-----------------------------------------------------------------------------
(* The calls on an adapter as steps of a session: at most MaxEmbedCalls     *)
(* embedContent calls, then one of generateContent, countTokens and         *)
(* generateContentStream.                                                   *)

\* most Parts of a Content, most entries of a Contents list
MaxParts == 2
MaxContents == 2

\* most embedContent calls of a session
MaxEmbedCalls == 1

\* request.contents: one Content of up to MaxParts Parts (texts, an empty
\* text, an image), a list of up to MaxContents entries, a Content not
\* wrapped in a list, a string
ContentsValues ==
    { ContentsArray(<<Content(r, ps)>>) :
        r \in {"user", "model"},
        ps \in SeqsUpTo({TextPart(Hi), TextPart(There), TextPart(<< >>),
                         ImagePart}, MaxParts) }
        \cup { ContentsArray(s) :
                 s \in SeqsUpTo({Content("user", <<TextPart(Hi)>>),
                                 Content("model", <<TextPart(There)>>),
                                 Content("user", <<ImagePart>>),
                                 StringContent(Hi)}, MaxContents) }
        \cup { ContentsObject(Content("user", <<TextPart(Hi)>>)),
               ContentsObject(Content("user", <<ImagePart, ImagePart>>)),
               ContentsString(Hi), ContentsString(<< >>) }

\* the requests: the Contents with no system instruction, one given as a
\* string (also the empty string) or as a Content, and with no tools, a
\* declared tool or a tool entry without functionDeclaration
Requests ==
    { GenerateContentParameters(c, s, t) :
        c \in ContentsValues,
        s \in {NoSystemInstruction, SystemString(BeBrief), SystemString(<< >>),
               SystemContent(<<TextPart(BeBrief)>>),
               SystemContent(<<TextPart(Hi), TextPart(There)>>)},
        t \in {NoTools, Tools(<<"get_weather">>), Tools(<<Undefined>>)} }

\* a session with an adapter and the request of its calls; the provider
\* answers a streaming call with an empty stream
InitCall ==
    /\ AdapterCreated
    /\ request \in Requests
    /\ StreamIdle
    /\ lastCall = NoCall
    /\ reply = NoReply
    /\ opResult = NoResult
    /\ embedResult = NoEmbedResult
    /\ streamOpen = FALSE
    /\ consumer = "pulling"
    /\ calls = NoCalls

\* no generateContent, countTokens or generateContentStream call was made
NoCallYet == genState = "idle" /\ opResult.op = "none"

\* generateContent(request): the request is translated, the create call is
\* issued and its response translated; whatever throws inside the try is
\* rethrown wrapped
GenerateContent ==
    /\ NoCallYet
    /\ LET kind == generator.kind
           t == translateRequest(kind, request, FALSE)
       IN  IF t.threw
           THEN /\ opResult' = [NoResult EXCEPT !.op = "generateContent",
                                               !.error = translationError(kind)]
                /\ UNCHANGED <<clientCalls, lastCall, reply>>
           ELSE /\ clientCalls' = clientCalls + 1
                /\ lastCall' = t.call
                /\ \/ \E response \in ProviderResponses(kind) :
                        /\ reply' = response
                        /\ opResult' =
                            [NoResult EXCEPT
                                !.op = "generateContent",
                                !.response = convertResponse(kind, response)]
                   \/ \E message \in FaultMessages :
                        /\ reply' = reply
                        /\ opResult' =
                            [NoResult EXCEPT
                                !.op = "generateContent",
                                !.error = wrapError(kind, message)]
    /\ UNCHANGED <<request, embedResult>>
    /\ UNCHANGED configVars
    /\ UNCHANGED calls
    /\ UNCHANGED streamVars
    /\ UNCHANGED consumerVars

\* countTokens({ contents: request.contents }): an estimate from the length
\* of the text, no call on the client
CountTokens ==
    /\ NoCallYet
    /\ opResult' = [NoResult EXCEPT
                        !.op = "countTokens",
                        !.totalTokens = countTokens(generator.kind,
                                                    request.contents)]
    /\ UNCHANGED <<request, lastCall, reply, embedResult, clientCalls>>
    /\ UNCHANGED configVars
    /\ UNCHANGED calls
    /\ UNCHANGED streamVars
    /\ UNCHANGED consumerVars

\* embedContent({ contents: request.contents }): the OpenAI adapter calls
\* client.embeddings.create, the other two throw without calling anything
EmbedContent ==
    /\ NoCallYet
    /\ embedResult.calls < MaxEmbedCalls
    /\ IF supportsEmbeddings(generator.kind)
       THEN /\ clientCalls' = clientCalls + 1
            /\ lastCall' = embeddingsCall(request.contents)
            /\ \/ embedResult' =
                    [calls |-> embedResult.calls + 1, error |-> NoError,
                     embeddings |-> embedResult.embeddings + 1]
               \/ \E message \in FaultMessages :
                    embedResult' =
                        [embedResult EXCEPT !.calls = embedResult.calls + 1,
                                            !.error = embeddingsError(message)]
       ELSE /\ embedResult' =
                    [embedResult EXCEPT
                        !.calls = embedResult.calls + 1,
                        !.error = embeddingsUnsupportedError(generator.kind)]
            /\ UNCHANGED <<clientCalls, lastCall>>
    /\ UNCHANGED <<request, reply, opResult>>
    /\ UNCHANGED configVars
    /\ UNCHANGED calls
    /\ UNCHANGED streamVars
    /\ UNCHANGED consumerVars

NextCall ==
    \/ GenerateContent
    \/ CountTokens
    \/ EmbedContent
    \/ GenerateContentStream
    \/ PullNext
    \/ PullClosed
    \/ ReturnGenerator
    \/ AbandonGenerator

SpecCall == InitCall /\ [][NextCall]_vars

-----------------------------------------------------------------------------
(* Two concurrent calls on one adapter instance *)

\* longest provider stream of a concurrent call
MaxConcurrentLen == 2

\* the events the providers send to the concurrent calls: two that are
\* yielded and one that is not
ConcurrentEvents(kind) ==
    IF kind = "AnthropicAdapter"
    THEN { AnthropicEvent("content_block_delta", "text_delta", "Hel", Null),
           AnthropicEvent("content_block_delta", "text_delta", "lo", Null),
           AnthropicEvent("message_delta", Undefined, Undefined, "end_turn") }
    ELSE { Chunk("content", "Hel", Null), Chunk("content", "lo", "stop"),
           UsageChunk }

\* a session with an adapter on which two calls are going to be made, each
\* a generateContentStream call with the stream its provider will send or a
\* generateContent call
InitConcurrent ==
    /\ AdapterCreated
    /\ request = PlainRequest
    /\ StreamIdle
    /\ lastCall = NoCall
    /\ reply = NoReply
    /\ opResult = NoResult
    /\ embedResult = NoEmbedResult
    /\ streamOpen = FALSE
    /\ consumer = "pulling"
    /\ calls \in [CallIds ->
                    {[NoConcurrentCall EXCEPT !.mode = "unary"]}
                        \cup {[NoConcurrentCall EXCEPT !.stream = s] :
                                s \in SeqsUpTo(ConcurrentEvents(generator.kind),
                                               MaxConcurrentLen)}]

\* an adapter that keeps the stream and the position of the running call in
\* fields of the instance, which the first call owns
closure_instanceFields(cs, c) == cs["first"]

\* what the code of call c works on: `request`, `messages`, `stream` and
\* `response` are parameters and locals of the call, and each
\* streamGenerator() invocation has its own
closure(cs, c) == cs[c]

\* generateContentStream(request) of call c: returns streamGenerator()
\* without running any of its body
ConcurrentGenerateContentStream(c) ==
    /\ calls[c].mode = "stream"
    /\ calls[c].genState = "idle"
    /\ calls' = [calls EXCEPT ![c].genState = "suspendedStart"]
    /\ UNCHANGED <<clientCalls, streamOpen, consumer>>
    /\ UNCHANGED configVars
    /\ UNCHANGED streamVars
    /\ UNCHANGED callVars

\* next() on the generator of call c: its body runs (from its start: the
\* translation of the request and the create call on the shared client) up
\* to the next yield, the end of its stream, or a throw of its provider
\* stream, caught and rethrown wrapped
ConcurrentPull(c) ==
    /\ calls[c].mode = "stream"
    /\ calls[c].genState \in {"suspendedStart", "suspendedYield"}
    /\ LET own == closure(calls, c)
           kind == generator.kind
           starting == calls[c].genState = "suspendedStart"
           t == translateRequest(kind, request, TRUE)
       IN  IF starting /\ t.threw
           THEN /\ calls' = [calls EXCEPT
                                ![c].genState = "closed",
                                ![c].error = translationError(kind)]
                /\ UNCHANGED <<clientCalls, lastCall>>
           ELSE /\ clientCalls' = IF starting THEN clientCalls + 1
                                  ELSE clientCalls
                /\ lastCall' = IF starting THEN t.call ELSE lastCall
                /\ \/ LET r == forAwait(kind, own.stream, NoFault, own.pos) IN
                      calls' =
                        [calls EXCEPT
                            ![c].pos = r.pos,
                            ![c].received =
                                IF r.outcome = "yield"
                                THEN Append(own.received, r.value)
                                ELSE own.received,
                            ![c].genState =
                                IF r.outcome = "yield" THEN "suspendedYield"
                                ELSE "closed"]
                   \/ \E fault \in own.pos..Len(own.stream),
                         message \in FaultMessages :
                        LET r == forAwait(kind, own.stream, fault, own.pos) IN
                        /\ r.outcome = "throw"
                        /\ calls' =
                            [calls EXCEPT
                                ![c].pos = r.pos,
                                ![c].genState = "closed",
                                ![c].fault = message,
                                ![c].error = wrapError(kind, message)]
    /\ UNCHANGED <<request, reply, opResult, embedResult, streamOpen, consumer>>
    /\ UNCHANGED configVars
    /\ UNCHANGED streamVars

\* generateContent(request) of call c up to its await: the request is
\* translated and the create call issued on the shared client
ConcurrentGenerateContent(c) ==
    /\ calls[c].mode = "unary"
    /\ calls[c].genState = "idle"
    /\ LET kind == generator.kind
           t == translateRequest(kind, request, FALSE)
       IN  IF t.threw
           THEN /\ calls' = [calls EXCEPT
                                ![c].genState = "settled",
                                ![c].error = translationError(kind)]
                /\ UNCHANGED <<clientCalls, lastCall>>
           ELSE /\ clientCalls' = clientCalls + 1
                /\ lastCall' = t.call
                /\ calls' = [calls EXCEPT ![c].genState = "awaiting"]
    /\ UNCHANGED <<request, reply, opResult, embedResult, streamOpen, consumer>>
    /\ UNCHANGED configVars
    /\ UNCHANGED streamVars

\* the create call of call c settles: generateContent resumes with the
\* response and translates it, or with the provider's Error and rethrows it
\* wrapped
ConcurrentResponse(c) ==
    /\ calls[c].mode = "unary"
    /\ calls[c].genState = "awaiting"
    /\ LET kind == generator.kind IN
        \/ \E response \in ProviderResponses(kind) :
             calls' = [calls EXCEPT
                          ![c].genState = "settled",
                          ![c].response = response,
                          ![c].result =
                              [NoResult EXCEPT
                                  !.op = "generateContent",
                                  !.response = convertResponse(kind, response)]]
        \/ \E message \in FaultMessages :
             calls' = [calls EXCEPT
                          ![c].genState = "settled",
                          ![c].fault = message,
                          ![c].error = wrapError(kind, message)]
    /\ UNCHANGED <<clientCalls, streamOpen, consumer>>
    /\ UNCHANGED configVars
    /\ UNCHANGED streamVars
    /\ UNCHANGED callVars

NextConcurrent ==
    \/ \E c \in CallIds : ConcurrentGenerateContentStream(c)
    \/ \E c \in CallIds : ConcurrentPull(c)
    \/ \E c \in CallIds : ConcurrentGenerateContent(c)
    \/ \E c \in CallIds : ConcurrentResponse(c)

SpecConcurrent == InitConcurrent /\ [][NextConcurrent]_vars

-----------------------------------------------------------------------------
(* Properties of streaming *)

\* a provider event that carries a text delta
IsTextEvent(e) ==
    /\ e.text # Undefined
    /\ e.text # ""
    /\ \/ e.type = "chat.completion.chunk" /\ e.choices = 1
       \/ e.type = "content_block_delta" /\ e.delta = "text_delta"

\* the text events among the first n events of the stream, in order
RECURSIVE TextEventsUpTo(_)
TextEventsUpTo(n) ==
    IF n = 0 THEN << >>
    ELSE IF IsTextEvent(stream[n])
         THEN Append(TextEventsUpTo(n - 1), stream[n])
         ELSE TextEventsUpTo(n - 1)

\* the documented finish-reason table
CanonicalFinishReason(signal) ==
    CASE signal \in {"stop", "end_turn"} -> "STOP"
      [] signal \in {"stop_sequence"} -> "STOP"
      [] signal \in {"length", "max_tokens"} -> "MAX_TOKENS"
      [] signal \in {"content_filter"} -> "SAFETY"
      [] signal \in {"tool_calls", "function_call", "tool_use"} -> "STOP"
      [] OTHER -> "OTHER"

\* the stream is N text events ended by the provider's finish signal: for
\* OpenAI and Llama providers the signal is the last text chunk's
\* finish_reason; Anthropic sends it in a message_delta event after the last
\* text delta
TextStreamWithFinish ==
    IF generator.kind = "AnthropicAdapter"
    THEN /\ Len(stream) >= 2
         /\ \A i \in 1..(Len(stream) - 1) : IsTextEvent(stream[i])
         /\ stream[Len(stream)].type = "message_delta"
    ELSE /\ Len(stream) >= 1
         /\ \A i \in 1..Len(stream) : IsTextEvent(stream[i])
         /\ \A i \in 1..(Len(stream) - 1) : stream[i].finish = Null
         /\ stream[Len(stream)].finish # Null

StreamEndedNormally == genState = "closed" /\ streamError = NoError

(* C8: a provider stream of N incremental text events yields exactly N      *)
(* partial responses in emission order, each carrying only its event's      *)
(* text; the last carries the mapped canonical finishReason and the         *)
(* earlier ones carry none.                                                 *)
C8_TerminalPartialCarriesFinishReason ==
    (StreamEndedNormally /\ TextStreamWithFinish)
        => LET texts == TextEventsUpTo(Len(stream))
               N == Len(texts)
           IN  /\ Len(received) = N
               /\ \A i \in 1..N : received[i].text = texts[i].text
               /\ \A i \in 1..(N - 1) : received[i].finishReason = Undefined
               /\ received[N].finishReason =
                    CanonicalFinishReason(stream[Len(stream)].finish)

(* C9: an event that carries no text delta produces no partial response;    *)
(* every partial response received has non-empty text and corresponds to    *)
(* exactly one text-bearing provider event.                                 *)
C9_EventsWithoutTextAreDropped ==
    LET texts == TextEventsUpTo(pos) IN
        /\ Len(received) = Len(texts)
        /\ \A i \in 1..Len(received) :
            received[i].text # "" /\ received[i].text = texts[i].text

\* the first n events of the stream are all text events
TextEventsOnly(n) == \A i \in 1..n : IsTextEvent(stream[i])

\* how each adapter's errors name its provider
ProviderErrorName ==
    CASE generator.kind = "OpenAIAdapter" -> "OpenAI API error: "
      [] generator.kind = "AnthropicAdapter" -> "Anthropic API error: "
      [] generator.kind = "MetaLlamaAdapter" -> "Meta Llama API error: "

\* the step in which the generator throws because the provider failed
StreamFails ==
    /\ genState # "closed"
    /\ genState' = "closed"
    /\ streamError' # NoError
    /\ faultAt # NoFault

(* C10: if the provider stream fails after k text events, the consumer      *)
(* has received exactly those k partial responses in order and its next     *)
(* pull throws an error that names the provider and carries the original    *)
(* message; nothing is emitted after the error and the provider call is     *)
(* not issued again.                                                        *)
C10_StreamFaultPropagation ==
    [][ /\ StreamFails =>
            /\ received' = received
            /\ TextEventsOnly(faultAt) =>
                /\ Len(received) = faultAt
                /\ \A i \in 1..faultAt : received[i].text = stream[i].text
                /\ pulls' = faultAt + 1
            /\ streamError'[1] = ProviderErrorName
            /\ streamError'[3] = faultMessage
            /\ clientCalls' = 1
        /\ genState = "closed" =>
            /\ genState' = "closed"
            /\ received' = received
            /\ streamError' = streamError
            /\ clientCalls' = clientCalls
      ]_vars

\* the stream failed after two text events, both were received in order,
\* and the consumer pulled once more after the error
C10_Witness ==
    /\ genState = "closed"
    /\ streamError # NoError
    /\ faultAt = 2
    /\ TextEventsOnly(2)
    /\ stream[1].text # stream[2].text
    /\ Len(received) = 2
    /\ received[1].text = stream[1].text
    /\ pulls = 4

-----------------------------------------------------------------------------
(* Properties of the streaming call *)

\* translating the session's request throws
TranslationThrows == translateRequest(generator.kind, request, TRUE).threw

(* C11: an error raised while the request is translated surfaces from the   *)
(* generateContentStream call itself: when translating the request fails    *)
(* (a tool entry without a readable functionDeclaration) the call fails     *)
(* before it returns any sequence, so no generator ever exists for such a   *)
(* request.                                                                 *)
C11_TranslationErrorSurfacesAtCall ==
    TranslationThrows => genState = "idle"

(* C12: whenever the consumer has finished with a sequence it abandoned     *)
(* before its end, the provider's transport stream has been released: no    *)
(* reachable state has the consumer finished and the stream still open.     *)
C12_AbandonedStreamIsReleased ==
    consumer = "finished" => ~streamOpen

-----------------------------------------------------------------------------
(* Properties of the calls on an adapter *)

\* an adapter of a provider without an embeddings capability
NoEmbeddingsProvider ==
    generator.kind \in {"AnthropicAdapter", "MetaLlamaAdapter"}

\* the step of an embedContent call
EmbedStep == embedResult'.calls = embedResult.calls + 1

\* a message that has the given piece in it
Mentions(error, piece) == \E i \in 1..Len(error) : error[i] = piece

(* C13: embedContent on the Anthropic and Meta Llama adapters always fails  *)
(* with an error that names embeddings and suggests a different provider;   *)
(* the call issues no transport call and leaves the adapter as it was, so   *)
(* a later generateContent issues its one create call as usual.             *)
C13_EmbeddingsUnsupported ==
    [][ NoEmbeddingsProvider =>
            /\ EmbedStep =>
                /\ embedResult'.error # NoError
                /\ Mentions(embedResult'.error, "embeddings")
                /\ Mentions(embedResult'.error, "different provider")
                /\ embedResult'.embeddings = 0
                /\ clientCalls' = clientCalls
                /\ lastCall' = lastCall
                /\ generator' = generator
                /\ cgConfig' = cgConfig
                /\ opResult' = opResult
                /\ genState' = genState
            /\ (embedResult.calls > 0 /\ opResult'.op = "generateContent"
                    /\ ~translateRequest(generator.kind, request, FALSE).threw)
                => /\ clientCalls' = 1
                   /\ lastCall' =
                        translateRequest(generator.kind, request, FALSE).call
      ]_vars

\* embedContent failed on the Anthropic adapter without a transport call,
\* and the generateContent call after it returned a response
C13_Witness ==
    /\ generator.kind = "AnthropicAdapter"
    /\ embedResult.calls = 1
    /\ Mentions(embedResult.error, "embeddings")
    /\ opResult.op = "generateContent"
    /\ opResult.error = NoError
    /\ opResult.response.finishReason = STOP
    /\ clientCalls = 1

\* the create call of generateContent or generateContentStream was issued
CreateCallIssued ==
    lastCall.api \in {"chat.completions.create", "messages.create"}

\* the entries of the request's Contents, in order
Entries == request.contents.items

\* the messages translated from the Contents: those after a leading
\* system-role message
TranslatedContents ==
    IF lastCall.messages # << >> /\ lastCall.messages[1].role = "system"
    THEN Tail(lastCall.messages)
    ELSE lastCall.messages

\* a Content with exactly one Part, a text Part
SingleTextPart(entry) ==
    /\ entry.kind = "content"
    /\ Len(entry.parts) = 1
    /\ entry.parts[1].kind = "text"

(* C14: for a request whose Contents are exactly one Content with exactly   *)
(* one text Part, whatever its text (the empty string included), the        *)
(* translated message content is that text as a bare string, not an array.  *)
C14_SingleTextPartIsBareString ==
    (CreateCallIssued /\ Len(Entries) = 1 /\ SingleTextPart(Entries[1]))
        => /\ Len(TranslatedContents) = 1
           /\ TranslatedContents[1].content.kind = "string"
           /\ TranslatedContents[1].content.text = Entries[1].parts[1].text

\* a Content with several Parts, or with a single inlineData Part
Structured(entry) ==
    /\ entry.kind = "content"
    /\ \/ Len(entry.parts) >= 2
       \/ Len(entry.parts) = 1 /\ entry.parts[1].kind = "inlineData"

ImageWord == <<"[", "I", "m", "a", "g", "e">>

\* the number of places of a text at which an image placeholder starts
PlaceholdersIn(text) ==
    Cardinality({ i \in 1..(Len(text) - Len(ImageWord) + 1) :
                    SubSeq(text, i, i + Len(ImageWord) - 1) = ImageWord })

\* the block stands for the Part: a text block with the Part's text, or for
\* an inlineData Part an image block or a placeholder text block
BlockOf(part, block) ==
    IF part.kind = "text"
    THEN block.type = "text" /\ block.text = part.text
    ELSE \/ block.type = "image_url"
         \/ block.type = "text" /\ PlaceholdersIn(block.text) = 1

(* C15: for every adapter and both roles, a Content with several Parts or   *)
(* with a single inlineData Part is translated to a content-block array     *)
(* with one block per Part in Part order; only a Content with a single      *)
(* text Part becomes a bare string.                                         *)
C15_StructuredContentIsBlockArray ==
    (CreateCallIssued /\ request.contents.form # "string")
        => \A i \in 1..Len(Entries) :
            LET entry == Entries[i]
                content == TranslatedContents[i].content
            IN  /\ Structured(entry) =>
                    /\ content.kind = "array"
                    /\ Len(content.blocks) = Len(entry.parts)
                    /\ \A j \in 1..Len(entry.parts) :
                        BlockOf(entry.parts[j], content.blocks[j])
                /\ (entry.kind = "content" /\ content.kind = "string")
                    => SingleTextPart(entry)

IsInlineDataPart(part) == part.kind = "inlineData"
IsImageBlock(block) == block.type = "image_url"

\* the data URL of an inlineData Part
DataUrl(part) ==
    <<"d", "a", "t", "a", ":">> \o part.mimeType
        \o <<";", "b", "a", "s", "e", "6", "4", ",">> \o part.data

\* the items of a translated message content that stand for inlineData
\* Parts: image blocks and placeholder texts
InlineItems(content) ==
    IF content.kind = "array"
    THEN Cardinality({ j \in 1..Len(content.blocks) :
            \/ content.blocks[j].type = "image_url"
            \/ /\ content.blocks[j].type = "text"
               /\ PlaceholdersIn(content.blocks[j].text) = 1 })
    ELSE PlaceholdersIn(content.text)

(* C16: no inlineData Part is dropped silently: in the message translated   *)
(* from a Content, every inlineData Part is an image_url block with the     *)
(* data URL of its mimeType and data (OpenAI user messages) or a            *)
(* placeholder text, so the translated items for inlineData Parts are as    *)
(* many as the inlineData Parts.                                            *)
C16_InlineDataNeverDropped ==
    (CreateCallIssued /\ request.contents.form # "string")
        => /\ Len(TranslatedContents) = Len(Entries)
           /\ \A i \in 1..Len(Entries) :
                LET entry == Entries[i]
                    content == TranslatedContents[i].content
                    images == SelectSeq(entry.parts, IsInlineDataPart)
                IN  entry.kind = "content" =>
                        /\ InlineItems(content) = Len(images)
                        /\ (generator.kind = "OpenAIAdapter"
                                /\ entry.role = "user" /\ images # << >>)
                            => LET blocks == SelectSeq(content.blocks,
                                                       IsImageBlock)
                               IN  /\ Len(blocks) = Len(images)
                                   /\ \A j \in 1..Len(images) :
                                        blocks[j].url = DataUrl(images[j])

\* the OpenAI adapter sent a user Content of an image and a text as an
\* image_url block followed by a text block
C16_Witness ==
    /\ CreateCallIssued
    /\ generator.kind = "OpenAIAdapter"
    /\ Entries = <<Content("user", <<ImagePart, TextPart(Hi)>>)>>
    /\ TranslatedContents[1].content.kind = "array"
    /\ TranslatedContents[1].content.blocks[1].type = "image_url"
    /\ TranslatedContents[1].content.blocks[2].text = Hi

\* a system instruction is set: a non-empty string or a Content
InstructionSet ==
    \/ request.systemInstruction.kind = "content"
    \/ /\ request.systemInstruction.kind = "string"
       /\ request.systemInstruction.text # << >>

\* the texts of the Parts, separated by single blanks
RECURSIVE SpacedTexts(_)
SpacedTexts(parts) ==
    IF Len(parts) = 0 THEN << >>
    ELSE IF Len(parts) = 1 THEN parts[1].text
    ELSE parts[1].text \o <<" ">> \o SpacedTexts(Tail(parts))

\* the text of the request's system instruction
InstructionText ==
    IF request.systemInstruction.kind = "string"
    THEN request.systemInstruction.text
    ELSE SpacedTexts(request.systemInstruction.content.parts)

\* the system-role messages of the outgoing call
SystemMessages ==
    { i \in 1..Len(lastCall.messages) : lastCall.messages[i].role = "system" }

(* C17: when a system instruction is set, as a string or as a Content, the  *)
(* create call of generateContent and of generateContentStream carries its  *)
(* exact text on the system channel: the `system` field for Anthropic, the  *)
(* first message, of role system, for OpenAI and Meta Llama; when none is   *)
(* set the call has no system field and no system-role message.             *)
C17_SystemInstructionOnSystemChannel ==
    CreateCallIssued =>
        IF ~InstructionSet
        THEN ~lastCall.system.present /\ SystemMessages = {}
        ELSE IF generator.kind = "AnthropicAdapter"
        THEN /\ lastCall.system.present
             /\ lastCall.system.text = InstructionText
             /\ SystemMessages = {}
        ELSE /\ ~lastCall.system.present
             /\ SystemMessages = {1}
             /\ lastCall.messages[1].content.kind = "string"
             /\ lastCall.messages[1].content.text = InstructionText
             /\ Len(lastCall.messages) = 1 + Len(TranslatedContents)

\* the OpenAI adapter's streaming call carried the text of a Content system
\* instruction as its first message, before the translated Contents
C17_Witness ==
    /\ CreateCallIssued
    /\ lastCall.stream
    /\ generator.kind = "OpenAIAdapter"
    /\ request.systemInstruction = SystemContent(<<TextPart(Hi), TextPart(There)>>)
    /\ lastCall.messages[1].role = "system"
    /\ lastCall.messages[1].content.text = Hi \o <<" ">> \o There
    /\ Len(lastCall.messages) = 3

\* generateContent returned a response
ResponseReturned == opResult.op = "generateContent" /\ opResult.error = NoError

FinishReasons == {STOP, MAX_TOKENS, SAFETY, OTHER_REASON}

(* C18: the finishReason of a generateContent response is the documented    *)
(* canonical value of the provider's signal, for every adapter: end of      *)
(* turn and stop sequence STOP, length cutoff MAX_TOKENS, content filter    *)
(* SAFETY, tool or function invocation STOP, every other string and null    *)
(* OTHER; it is always one of the four canonical values.                    *)
C18_FinishReasonFollowsTable ==
    ResponseReturned
        => /\ opResult.response.finishReason \in FinishReasons
           /\ opResult.response.finishReason =
                CanonicalFinishReason(reply.finish)

\* the provider supplied the counter
Supplied(count) == reply.usage.present /\ count # AbsentCount

(* C19: the usageMetadata of a generateContent response has the provider's  *)
(* prompt and completion counters, each 0 when absent, and as total the     *)
(* provider's total when supplied and otherwise the sum of the two.         *)
C19_UsageTotalIsProviderTotalOrSum ==
    ResponseReturned
        => LET usage == reply.usage
               metadata == opResult.response.usage
           IN  /\ metadata.promptTokenCount =
                    IF Supplied(usage.prompt_tokens)
                    THEN usage.prompt_tokens ELSE 0
               /\ metadata.candidatesTokenCount =
                    IF Supplied(usage.completion_tokens)
                    THEN usage.completion_tokens ELSE 0
               /\ metadata.totalTokenCount =
                    IF Supplied(usage.total_tokens)
                    THEN usage.total_tokens
                    ELSE metadata.promptTokenCount
                            + metadata.candidatesTokenCount

\* countTokens returned or threw
CountReturned == opResult.op = "countTokens"

\* the text of an entry of the Contents
EntryText(entry) ==
    IF entry.kind = "string" THEN entry.text ELSE SpacedTexts(entry.parts)

\* the texts of the entries, separated by single blanks
RECURSIVE SpacedEntries(_)
SpacedEntries(entries) ==
    IF Len(entries) = 0 THEN << >>
    ELSE IF Len(entries) = 1 THEN EntryText(entries[1])
    ELSE EntryText(entries[1]) \o <<" ">> \o SpacedEntries(Tail(entries))

\* the text of the request
RequestText == SpacedEntries(Entries)

\* the input is empty: an empty string, an empty list, or Contents none of
\* whose entries and Parts has any text
NoText ==
    \A i \in 1..Len(Entries) :
        /\ Entries[i].text = << >>
        /\ \A j \in 1..Len(Entries[i].parts) :
            Entries[i].parts[j].text = << >>

\* ceil(a / b)
Ceil(a, b) == CHOOSE k \in 0..a : b * k >= a /\ b * (k - 1) < a

(* C20: countTokens never fails and issues no provider call; it returns 0   *)
(* on empty input (an empty string, an empty Contents list, Contents        *)
(* without text) and otherwise ceil(length / 4) for OpenAI and Meta Llama   *)
(* and ceil(2 * length / 7) for Anthropic, length being the number of       *)
(* characters of the request's text.                                        *)
C20_TokenEstimate ==
    CountReturned
        => /\ opResult.error = NoError
           /\ ~CreateCallIssued
           /\ clientCalls <= embedResult.calls
           /\ opResult.totalTokens =
                IF NoText THEN 0
                ELSE IF generator.kind = "AnthropicAdapter"
                THEN Ceil(2 * Len(RequestText), 7)
                ELSE Ceil(Len(RequestText), 4)

-----------------------------------------------------------------------------
(* Agreement of the resolver and the factory *)

\* the adapter class that serves each secondary provider tag
AdapterOf(provider) ==
    CASE provider = "openai" -> "OpenAIAdapter"
      [] provider = "anthropic" -> "AnthropicAdapter"
      [] provider = "meta" -> "MetaLlamaAdapter"

\* the factory threw one of its three missing-key errors
MissingKeyThrown ==
    /\ Len(factoryError) = 2
    /\ factoryError[2] = " API key is required but not provided"

(* C23: whenever the resolver returns a config tagged openai, anthropic or  *)
(* meta, the factory run on that config does not throw and returns the      *)
(* adapter of that provider; the Meta Llama adapter's base URL is the proxy *)
(* setting when one is set and the Together endpoint otherwise; and the     *)
(* factory throws a missing-key error only for configs the resolver left    *)
(* without a provider.                                                      *)
C23_ResolverFactoryAgreement ==
    FactoryRan =>
        /\ cgConfig.provider \in {"openai", "anthropic", "meta"} =>
              /\ pc = "created"
              /\ factoryError = NoError
              /\ generator.kind = AdapterOf(cgConfig.provider)
              /\ generator.apiKey = cgConfig.apiKey
              /\ generator.kind = "MetaLlamaAdapter" =>
                    generator.baseURL =
                        (IF getProxy \notin {Undefined, ""} THEN getProxy
                         ELSE "https://api.together.xyz/v1")
        /\ MissingKeyThrown => cgConfig.provider = Undefined

\* the resolver tagged a config meta with a proxy set, and the factory
\* returned a Meta Llama adapter on that proxy
C23_Witness ==
    /\ pc = "created"
    /\ cgConfig.provider = "meta"
    /\ getProxy = "http://proxy.local:8080"
    /\ generator.kind = "MetaLlamaAdapter"
    /\ generator.baseURL = "http://proxy.local:8080"

-----------------------------------------------------------------------------
(* Roles and order of the translated messages *)

\* the provider role of an entry of the Contents
ProviderRole(entry) ==
    IF entry.kind = "string" THEN "user"
    ELSE IF entry.role = "user" THEN "user"
    ELSE "assistant"

(* C22: for every sequence of Contents of a request, the outgoing message   *)
(* list holds exactly one message per entry, in the entries' order, a user  *)
(* Content or a bare string as a 'user' message and a model Content as an   *)
(* 'assistant' message; no entry is left out.                               *)
C22_OneMessagePerContentInOrder ==
    CreateCallIssued =>
        /\ Len(TranslatedContents) = Len(Entries)
        /\ \A i \in 1..Len(Entries) :
              i <= Len(TranslatedContents) =>
                  TranslatedContents[i].role = ProviderRole(Entries[i])

-----------------------------------------------------------------------------
(* Concurrent calls on one adapter *)

\* the partial responses derived from a sequence of provider events, in the
\* events' order
RECURSIVE PartialsOf(_, _)
PartialsOf(kind, events) ==
    IF events = << >> THEN << >>
    ELSE (IF yields(kind, Head(events))
          THEN <<convertChunk(kind, Head(events))>> ELSE << >>)
            \o PartialsOf(kind, Tail(events))

\* call c has seen exactly what its own provider sent it
OwnOutcome(c) ==
    LET call == calls[c]
        kind == generator.kind
    IN  /\ call.received =
                PartialsOf(kind, SubSeq(call.stream, 1, call.pos))
        /\ (call.genState = "closed" /\ call.error = NoError)
                => call.received = PartialsOf(kind, call.stream)
        /\ call.error = IF call.fault = Undefined THEN NoError
                        ELSE wrapError(kind, call.fault)
        /\ (call.genState = "settled" /\ call.error = NoError)
                => call.result.response = convertResponse(kind, call.response)
        /\ call.genState \in {"idle", "suspendedStart", "awaiting"}
                => /\ call.received = << >>
                   /\ call.error = NoError
                   /\ call.result = NoResult

\* a step of one call leaves the other call and the adapter as they were
OneCallSteps ==
    /\ \E c \in CallIds : \A d \in CallIds \ {c} : calls'[d] = calls[d]
    /\ generator' = generator

(* C21: for any interleaving of the pulls on two generateContentStream      *)
(* sequences, and of generateContent calls, made on one adapter instance,   *)
(* each call yields exactly the partial responses derived from its own      *)
(* provider stream, in that stream's order, and fails only with its own     *)
(* provider's error; a step of one call changes nothing of the other, and   *)
(* the adapter (its client handle) is never modified.                       *)
C21_ConcurrentCallsAreIsolated ==
    /\ [](\A c \in CallIds : OwnOutcome(c))
    /\ [][OneCallSteps]_vars

\* the first sequence failed after yielding an element while the second,
\* started on the same adapter, is in the middle of a different stream
C21_Witness ==
    /\ clientCalls = 2
    /\ calls["first"].mode = "stream"
    /\ calls["first"].genState = "closed"
    /\ calls["first"].error # NoError
    /\ Len(calls["first"].received) = 1
    /\ calls["second"].mode = "stream"
    /\ calls["second"].genState = "suspendedYield"
    /\ calls["second"].error = NoError
    /\ Len(calls["second"].received) = 1
    /\ calls["second"].received # calls["first"].received
    /\ calls["second"].pos < Len(calls["second"].stream)

====
